---------------------------- MODULE Spec2Model ----------------------------
(***************************************************************************)
(* Model of the Amazon CAPTCHA solvers: the attempt/retry loop of          *)
(* solve_captcha in its three variants (AmazonCaptchaSolver in             *)
(* captcha_solver.py, SeleniumCaptchaSolver in selenium_captcha_solver.py, *)
(* PlaywrightCaptchaSolver in playwright_captcha_solver.py), the manual    *)
(* fallback solve_captcha_with_fallback of AmazonCaptchaSolver, and the    *)
(* text post-processing of the recognizer output.                          *)
(*                                                                         *)
(* The browser, the HTTP download, the OCR engine, the file system and the *)
(* clock are the environment: each call into them is one step whose        *)
(* outcome is chosen nondeterministically among the outcomes the call can  *)
(* have.                                                                   *)
(***************************************************************************)
EXTENDS Integers, Sequences, FiniteSets, TLC

(***************************************************************************)
(* Bounds of the model.                                                    *)
(***************************************************************************)
\* largest max_attempts argument explored (the default of the code is 3)
MaxAttemptsBound == 3
\* longest text the recognizer returns
MaxTextLen == 4
\* largest number of time units a sleep of the fallback may overshoot
MaxOversleep == 1
\* largest reading of the clock when the fallback starts
MaxStartTime == 2
\* longest text given to the corrector called on its own
MaxInputLen == 2

(***************************************************************************)
(* Program constants.                                                      *)
(***************************************************************************)
\* len(captcha_text) < 4
MinTextLen == 4
\* max_wait = 120
max_wait == 120
\* time.sleep(2) of the fallback poll loop
PollSleep == 2

Variants == {"Amazon", "Selenium", "Playwright"}

\* the variants that drive Selenium (find_element raises when absent)
SeleniumBased == {"Amazon", "Selenium"}

(***************************************************************************)
(* Text: a string is a sequence of one-character strings.                  *)
(***************************************************************************)
UpperLetters == {"A", "B", "C", "I", "J", "O", "S"}
\* "ß" is U+00DF and "ǰ" is U+01F0: lower-case letters of Unicode that have
\* no upper-case letter of their own
LowerLetters == {"a", "b", "o", "ß", "ǰ"}
Digits == {"0", "1", "5", "8", "2"}
Whitespace == {" "}
\* "U+030C" stands for the combining caron, a mark that is neither letter
\* nor digit, written by its code point
Others == {"-", "U+030C"}

\* the characters of the model
Chars == UpperLetters \cup LowerLetters \cup Digits \cup Whitespace \cup Others

\* str.isalnum of one character
IsAlnum(c) == c \in UpperLetters \cup LowerLetters \cup Digits

\* str.upper of one character: Python applies the full case mapping of
\* Unicode, which gives "SS" for "ß" and "J" followed by U+030C for "ǰ"
UpperChar(c) ==
    CASE c = "a" -> <<"A">>
      [] c = "b" -> <<"B">>
      [] c = "o" -> <<"O">>
      [] c = "ß" -> <<"S", "S">>
      [] c = "ǰ" -> <<"J", "U+030C">>
      [] OTHER -> <<c>>

\* str.upper
RECURSIVE Upper(_)
Upper(text) ==
    IF text = << >> THEN << >>
    ELSE UpperChar(Head(text)) \o Upper(Tail(text))

\* str.strip: drops leading and trailing whitespace
RECURSIVE LStrip(_)
LStrip(text) ==
    IF text # << >> /\ Head(text) \in Whitespace
    THEN LStrip(Tail(text))
    ELSE text

RECURSIVE RStrip(_)
RStrip(text) ==
    IF text # << >> /\ text[Len(text)] \in Whitespace
    THEN RStrip(SubSeq(text, 1, Len(text) - 1))
    ELSE text

Strip(text) == RStrip(LStrip(text))

\* ''.join(char for char in text if char.isalnum())
RECURSIVE KeepAlnum(_)
KeepAlnum(text) ==
    IF text = << >> THEN << >>
    ELSE IF IsAlnum(Head(text))
         THEN <<Head(text)>> \o KeepAlnum(Tail(text))
         ELSE KeepAlnum(Tail(text))

\* only the first occurrence replaced, as by str.replace(error, correction, 1)
Replace_FirstOnly(text, error, correction) ==
    [i \in DOMAIN text |->
        IF text[i] = error /\ (\A j \in 1..(i - 1) : text[j] # error)
        THEN correction
        ELSE text[i]]

\* str.replace(error, correction) for one-character error and correction
Replace(text, error, correction) ==
    [i \in DOMAIN text |-> IF text[i] = error THEN correction ELSE text[i]]

\* a table in which the output of one rule is the input of another
replacements_Chained ==
    << <<"0", "O">>, <<"1", "I">>, <<"5", "S">>, <<"8", "5">> >>

\* the dict replacements, in insertion order
replacements == << <<"0", "O">>, <<"1", "I">>, <<"5", "S">>, <<"8", "B">> >>

\* for error, correction in replacements.items(): text = text.replace(...)
RECURSIVE ApplyReplacements(_, _)
ApplyReplacements(text, rules) ==
    IF rules = << >> THEN text
    ELSE ApplyReplacements(Replace(text, Head(rules)[1], Head(rules)[2]),
                           Tail(rules))

\* the filter on alphanumeric characters left out
FixCommonErrors_NoFilter(text) == ApplyReplacements(Upper(text), replacements)

\* _fix_common_errors
FixCommonErrors(text) == ApplyReplacements(Upper(KeepAlnum(text)), replacements)

\* the recognized text returned without correction
PostProcess_NoCorrection(joined) == Strip(Upper(joined))

\* the text part of _recognize_captcha: ''.join(results).upper().strip(),
\* then _fix_common_errors
PostProcess(joined) == FixCommonErrors(Strip(Upper(joined)))

(***************************************************************************)
(* What the recognizer returns, joined: every text over OcrAlphabet of     *)
(* length at most MaxTextLen.                                              *)
(***************************************************************************)
OcrAlphabet == {"A", "0"}

RECURSIVE TextsOfLen(_, _)
TextsOfLen(alphabet, n) ==
    IF n = 0 THEN {<< >>}
    ELSE {<<c>> \o t : c \in alphabet, t \in TextsOfLen(alphabet, n - 1)}

RecognizerOutputs == UNION {TextsOfLen(OcrAlphabet, n) : n \in 0..MaxTextLen}

(***************************************************************************)
(* Debug artifacts.                                                        *)
(***************************************************************************)
temp_img_path == "temp_captcha.png"
preprocessed_path == "preprocessed_captcha.png"
\* f"captcha_screenshot_{attempt}.png"
screenshot_path(k) == "captcha_screenshot_" \o ToString(k) \o ".png"
manual_screenshot_path == "captcha_manual_intervention.png"

\* the screenshots of the earlier attempts cleaned as well
files_to_clean_AllScreenshots(k) ==
    {temp_img_path, preprocessed_path} \cup {screenshot_path(j) : j \in 0..k}

\* files_to_clean of _cleanup_files
files_to_clean(k) == {temp_img_path, preprocessed_path, screenshot_path(k)}

(***************************************************************************)
(* State.                                                                  *)
(***************************************************************************)
VARIABLES
    variant,            \* which solver class
    reader,             \* "ok" or "None": self.reader after __init__
    save_debug_output,  \* self.save_debug_output
    max_attempts,       \* argument of the call
    entry,              \* "solve": solve_captcha; "fallback": solve_captcha_with_fallback
    pc,                 \* position in the code
    attempt,            \* the attempt counter of solve_captcha
    image_path,         \* "None", "path" or "bytes"
    captcha_text,       \* the corrected text of the current attempt
    ret,                \* what solve_captcha returned: "none", "True", "False"
    fbret,              \* what solve_captcha_with_fallback returned
    files,              \* the debug artifacts on disk
    clock,              \* time.time(), which only the fallback reads
    start_time,         \* start_time of the fallback
    oversleep,          \* by how much the sleeps of the fallback overshoot
    calls,              \* how often each interaction happened in this invocation
    att,                \* what happened in the current attempt
    written,            \* the debug artifacts this invocation has written
    text_in,            \* the argument of a call of _fix_common_errors on its own
    text_out,           \* what that call returned, and a second call on the result
    text_alt            \* what the call returns with its rules in another order

vars == <<variant, reader, save_debug_output, max_attempts, entry, pc, attempt,
          image_path, captcha_text, ret, fbret, files, clock, start_time,
          oversleep, calls, att, written, text_in, text_out, text_alt>>

\* what a call of solve_captcha or of the fallback leaves alone: the solver
\* object, the arguments, and the texts of the corrector called on its own
config == <<variant, reader, save_debug_output, max_attempts, entry,
            text_in, text_out, text_alt>>

\* the output directory and the record of what was written to it
disk == <<files, written>>

\* what solve_captcha never touches
fallback_state == <<fbret, start_time, oversleep>>

\* the rules have not been applied in another order
NoReorder == [rules |-> << >>, out |-> << >>]

\* nothing has happened in the attempt yet
NoAttempt ==
    [detect |-> "none", download |-> "none", shot |-> "none", pre |-> "none",
     recog |-> "none", short |-> FALSE, submit |-> "none", verify |-> "none",
     fresh |-> 0, submits |-> 0, fetches |-> 0, recogs |-> 0,
     cleanup |-> "none"]

NoCalls ==
    [detect |-> 0, fetch |-> 0, recog |-> 0, submit |-> 0, fresh |-> 0,
     poll |-> 0, shot |-> 0]

\* the state after __init__, at the call of solve_captcha(driver, max_attempts)
\* or of solve_captcha_with_fallback(driver, max_attempts)
Init ==
    /\ variant \in Variants
    /\ reader \in {"ok", "None"}
    /\ save_debug_output \in BOOLEAN
    /\ max_attempts \in 0..MaxAttemptsBound
    /\ entry \in {"solve", "fallback"}
    /\ entry = "fallback" => variant = "Amazon"
    /\ pc = "start"
    /\ attempt = 0
    /\ image_path = "None"
    /\ captcha_text = << >>
    /\ ret = "none"
    /\ fbret = "none"
    /\ files = {}
    /\ clock = 0
    /\ start_time = 0
    /\ oversleep = 0
    /\ calls = NoCalls
    /\ att = NoAttempt
    /\ written = {}
    /\ text_in = << >>
    /\ text_out = << >>
    /\ text_alt = NoReorder

(***************************************************************************)
(* solve_captcha                                                           *)
(***************************************************************************)
\* the check of the reader left out
ReaderUnavailable_Ignored == FALSE

\* if self.reader is None
ReaderUnavailable == reader = "None"

\* if self.reader is None: return False; attempt = 0
CheckReader ==
    /\ pc = "start"
    /\ IF ReaderUnavailable
       THEN /\ ret' = "False"
            /\ pc' = "returned"
            /\ UNCHANGED attempt
       ELSE /\ attempt' = 0
            /\ pc' = "loop"
            /\ UNCHANGED ret
    /\ UNCHANGED <<config, fallback_state, image_path, captcha_text, disk,
                   clock, calls, att>>

\* one iteration too many
LoopCondition_Inclusive == attempt <= max_attempts

\* while attempt < max_attempts
LoopCondition == attempt < max_attempts

\* the artifacts of the failed attempts removed before the return
FilesAfterFailure_Cleaned(fs) == { }

\* What is on disk when solve_captcha gives up: "keep the failed captcha
\* files for analysis", nothing is removed before return False.
FilesAfterFailure(fs) == fs

\* the input looked for in the first attempt only
AttemptStart_DetectOnce(k) == IF k = 0 THEN "detect" ELSE "download"

\* Where an iteration of the loop starts: at the query for the challenge
\* input, in every attempt.
AttemptStart(k) == "detect"

\* while attempt < max_attempts: ... ; return False
LoopTest ==
    /\ pc = "loop"
    /\ IF LoopCondition
       THEN /\ pc' = AttemptStart(attempt)
            /\ att' = NoAttempt
            /\ UNCHANGED <<ret, files>>
       ELSE /\ ret' = "False"
            /\ pc' = "returned"
            /\ files' = FilesAfterFailure(files)
            /\ UNCHANGED att
    /\ UNCHANGED <<config, fallback_state, attempt, image_path, captcha_text,
                   written, clock, calls>>

\* the test of the query result turned around
InputSeen_Negated(r) ==
    IF r = "present" THEN "absent" ELSE "present"

\* What a query for the challenge input tells the code: find_element raises
\* when the element is absent, and the bare except takes every exception for
\* absence; query_selector returns None when absent and may raise.
InputSeen(r) ==
    IF variant \in SeleniumBased
    THEN IF r = "present" THEN "present" ELSE "absent"
    ELSE r

\* absence of the input taken for an error that costs an attempt
AfterDetect_AbsentIsError(seen) ==
    IF seen = "present" THEN "download" ELSE "except"

\* Where the code goes after the detection query: on to the download, out
\* with True ("No captcha detected"), or to the outer except.
AfterDetect(seen) ==
    CASE seen = "present" -> "download"
      [] seen = "absent" -> "returned"
      [] OTHER -> "except"

\* input_field = find_element(By.ID, "captchacharacters") / query_selector
Detect ==
    /\ pc = "detect"
    /\ \E r \in {"present", "absent", "error"} :
         /\ att' = [att EXCEPT !.detect = r]
         /\ calls' = [calls EXCEPT !.detect = @ + 1]
         /\ pc' = AfterDetect(InputSeen(r))
         /\ ret' = IF pc' = "returned" THEN "True" ELSE ret
    /\ UNCHANGED <<config, fallback_state, attempt, image_path, captcha_text,
                   disk, clock>>

\* the outcomes of _download_captcha_image: the image element is missing, the
\* download raises, the debug copy cannot be written, or all went well
DownloadOutcomes ==
    {"ok", "no_image", "download_error"}
        \cup (IF save_debug_output THEN {"write_error"} ELSE {})

\* with open(temp_img_path, "wb") as f: f.write(response.content)
\* Whether temp_captcha.png is in the directory after the call: yes when the
\* copy was written; when it could not be written, no if open raised and yes
\* (an empty or truncated file) if open created it and f.write raised; no
\* when the call did not come to writing.
DebugCopyLeft(r) ==
    CASE r = "ok" -> {save_debug_output}
      [] r = "write_error" -> BOOLEAN
      [] OTHER -> {FALSE}

\* an attempt without image asking for another image before it ends
AfterDownload_NewImage(path) ==
    IF path = "None" THEN "try_image" ELSE "screenshot"

\* if not image_path: attempt += 1; continue
AfterDownload(path) ==
    IF path = "None" THEN "inc" ELSE "screenshot"

\* image_path = self._download_captcha_image(driver); if not image_path: ...
\* (written holds the artifacts whose write succeeded; a copy that open
\* created and f.write did not fill is in files only)
Download ==
    /\ pc = "download"
    /\ \E r \in DownloadOutcomes :
         /\ att' = [att EXCEPT !.download = r,
                               !.fetches = IF r = "no_image" THEN @ ELSE @ + 1]
         /\ calls' = [calls EXCEPT !.fetch = IF r = "no_image" THEN @ ELSE @ + 1]
         /\ image_path' = IF r = "ok"
                          THEN IF save_debug_output THEN "path" ELSE "bytes"
                          ELSE "None"
         /\ \E left \in DebugCopyLeft(r) :
              files' = IF left THEN files \cup {temp_img_path} ELSE files
         /\ written' = IF r = "ok" /\ save_debug_output
                       THEN written \cup {temp_img_path}
                       ELSE written
         /\ pc' = AfterDownload(image_path')
    /\ UNCHANGED <<config, fallback_state, attempt, captcha_text, ret, clock>>

\* the outcomes of save_screenshot / page.screenshot: written, not written
\* because the file cannot be written, or the driver raises
ScreenshotOutcomes == {"ok", "write_fail", "error"}

\* Whether a screenshot that cannot be written raises: Selenium's
\* save_screenshot returns False on an IOError, Playwright's screenshot raises.
ScreenshotRaises(r) ==
    \/ r = "error"
    \/ r = "write_fail" /\ variant \notin SeleniumBased

\* if self.save_debug_output: driver.save_screenshot(screenshot_path)
Screenshot ==
    /\ pc = "screenshot"
    /\ IF save_debug_output
       THEN \E r \in ScreenshotOutcomes :
              /\ att' = [att EXCEPT !.shot = r]
              /\ calls' = [calls EXCEPT !.shot = @ + 1]
              /\ files' = IF r = "ok"
                          THEN files \cup {screenshot_path(attempt)}
                          ELSE files
              /\ written' = IF r = "ok"
                            THEN written \cup {screenshot_path(attempt)}
                            ELSE written
              /\ pc' = IF ScreenshotRaises(r) THEN "except" ELSE "preprocess"
       ELSE /\ pc' = "preprocess"
            /\ UNCHANGED <<att, calls, disk>>
    /\ UNCHANGED <<config, fallback_state, attempt, image_path, captcha_text,
                   ret, clock>>

\* the outcomes of _preprocess_image: the bytes are no image (cvtColor raises
\* on None), cv2.imwrite of the debug copy returns False or raises, or all
\* went well
PreprocessOutcomes ==
    {"ok", "decode_error"}
        \cup (IF save_debug_output THEN {"write_false", "write_raise"} ELSE {})

\* an image that could not be preprocessed given to the recognizer
AfterPreprocess_Always(r) == "recognize"

\* if preprocessed is None: attempt += 1; continue
\* (_preprocess_image returns None when it raised, the image when not)
AfterPreprocess(r) ==
    IF r \in {"ok", "write_false"} THEN "recognize" ELSE "inc"

\* preprocessed = self._preprocess_image(image_path); if preprocessed is None
Preprocess ==
    /\ pc = "preprocess"
    /\ \E r \in PreprocessOutcomes :
         /\ att' = [att EXCEPT !.pre = r]
         /\ files' = IF r = "ok" /\ save_debug_output
                     THEN files \cup {preprocessed_path}
                     ELSE files
         /\ written' = IF r = "ok" /\ save_debug_output
                       THEN written \cup {preprocessed_path}
                       ELSE written
         /\ pc' = AfterPreprocess(r)
    /\ UNCHANGED <<config, fallback_state, attempt, image_path, captcha_text,
                   ret, clock, calls>>

\* an exception of the recognizer left to the outer handler
AfterRecognize_Propagates(raised) == IF raised THEN "except" ELSE "validate"

\* _recognize_captcha catches what readtext raises and returns "": the
\* caller goes on to the length check either way
AfterRecognize(raised) == "validate"

\* captcha_text = self._recognize_captcha(preprocessed)
\* (readtext either raises, and the result is "", or returns fragments; the
\* check "if self.reader is None: return ''" never fires here, solve_captcha
\* having returned before the loop in that case)
Recognize ==
    /\ pc = "recognize"
    /\ reader # "None"
    /\ \E raised \in BOOLEAN :
         /\ att' = [att EXCEPT !.recog = IF raised THEN "error" ELSE "ok",
                               !.recogs = @ + 1]
         /\ IF raised
            THEN captcha_text' = << >>
            ELSE \E joined \in RecognizerOutputs :
                   captcha_text' = PostProcess(joined)
         /\ pc' = AfterRecognize(raised)
    /\ calls' = [calls EXCEPT !.recog = @ + 1]
    /\ UNCHANGED <<config, fallback_state, attempt, image_path, ret, disk,
                   clock>>

\* a rejected text retried without asking for another image
AfterValidate_NoNewImage(text) ==
    IF Len(text) < MinTextLen THEN "inc" ELSE "submit"

\* if len(captcha_text) < 4: try another image, else enter the text
AfterValidate(text) ==
    IF Len(text) < MinTextLen THEN "try_image" ELSE "submit"

\* if len(captcha_text) < 4: self._try_different_image(driver); ...
\* (a rejected text is never read again: the model forgets it here)
Validate ==
    /\ pc = "validate"
    /\ att' = [att EXCEPT !.short = Len(captcha_text) < MinTextLen]
    /\ pc' = AfterValidate(captcha_text)
    /\ captcha_text' = IF pc' = "submit" THEN captcha_text ELSE << >>
    /\ UNCHANGED <<config, fallback_state, attempt, image_path, ret, disk,
                   clock, calls>>

\* _try_different_image: the click on the link either works, and the code
\* waits for the new image, or raises, which the bare except swallows; the
\* caller goes on in the same way
TryDifferentImage ==
    /\ pc = "try_image"
    /\ att' = [att EXCEPT !.fresh = @ + 1]
    /\ calls' = [calls EXCEPT !.fresh = @ + 1]
    /\ pc' = "inc"
    /\ UNCHANGED <<config, fallback_state, attempt, image_path, captcha_text,
                   ret, disk, clock>>

\* the counter left as it is
NextAttempt_Stuck(k) == k

\* attempt += 1
NextAttempt(k) == k + 1

\* attempt += 1; continue
\* (image_path and captcha_text are assigned anew in every attempt before
\* they are read: the model forgets them when the attempt ends)
Increment ==
    /\ pc = "inc"
    /\ attempt' = NextAttempt(attempt)
    /\ pc' = "loop"
    /\ image_path' = "None"
    /\ captcha_text' = << >>
    /\ UNCHANGED <<config, fallback_state, ret, disk, clock, calls, att>>

\* except Exception as e: attempt += 1
OuterExcept ==
    /\ pc = "except"
    /\ attempt' = NextAttempt(attempt)
    /\ pc' = "loop"
    /\ image_path' = "None"
    /\ captcha_text' = << >>
    /\ UNCHANGED <<config, fallback_state, ret, disk, clock, calls, att>>

\* the outcomes of entering the text and clicking the button: submitted, an
\* exception before the click (no button, stale input), or an exception after
\* it (the navigation wait times out).  The Playwright variant looks the
\* button up with query_selector and clicks "if continue_button": with no
\* button it clicks nothing and raises nothing, and goes on when the page
\* navigates all the same ("no_button"); the Selenium-based variants raise
\* NoSuchElementException there.
SubmitOutcomes ==
    {"ok", "error_before", "error_after"}
        \cup (IF variant \in SeleniumBased THEN {} ELSE {"no_button"})

\* whether the button was clicked
Clicked(r) == r \in {"ok", "error_after"}

\* what the attempt records of the submission: it went through (with or
\* without a click) or it raised
SubmitResult(r) == IF r = "no_button" THEN "ok" ELSE r

\* another image asked for when the submission raised
AfterSubmit_NewImage(r) == IF r = "ok" THEN "verify" ELSE "try_image"

\* the submission went through: on to the re-query; it raised: to the outer
\* except
AfterSubmit(r) == IF r = "ok" THEN "verify" ELSE "except"

\* input_field.send_keys(captcha_text); submit_button.click(); time.sleep(3)
\* (the text is not read after send_keys: the model forgets it here; submits
\* and calls.submit count the clicks on the button)
Submit ==
    /\ pc = "submit"
    /\ \E r \in SubmitOutcomes :
         /\ att' = [att EXCEPT !.submit = SubmitResult(r),
                               !.submits = IF Clicked(r) THEN @ + 1 ELSE @]
         /\ calls' = [calls EXCEPT
                        !.submit = IF Clicked(r) THEN @ + 1 ELSE @]
         /\ pc' = AfterSubmit(SubmitResult(r))
    /\ captcha_text' = << >>
    /\ UNCHANGED <<config, fallback_state, attempt, image_path, ret, disk,
                   clock>>

\* a failed submission retried without asking for another image
AfterVerify_NoNewImage(seen) ==
    CASE seen = "present" -> "inc"
      [] seen = "absent" ->
           IF variant \in SeleniumBased THEN "cleanup" ELSE "returned"
      [] OTHER -> "except"

\* Where the code goes after the re-query: still challenged, try another
\* image; no longer challenged, clean up and return True (the Playwright
\* variant returns True at once); the query raised, to the outer except.
AfterVerify(seen) ==
    CASE seen = "present" -> "try_image"
      [] seen = "absent" ->
           IF variant \in SeleniumBased THEN "cleanup" ELSE "returned"
      [] OTHER -> "except"

\* the re-query for the challenge input after the submission
Verify ==
    /\ pc = "verify"
    /\ \E r \in {"present", "absent", "error"} :
         /\ att' = [att EXCEPT !.verify = r]
         /\ calls' = [calls EXCEPT !.detect = @ + 1]
         /\ pc' = AfterVerify(InputSeen(r))
         /\ ret' = IF pc' = "returned" THEN "True" ELSE ret
    /\ UNCHANGED <<config, fallback_state, attempt, image_path, captcha_text,
                   disk, clock>>

\* Whether the class defines _cleanup_files: SeleniumCaptchaSolver calls it
\* and does not define it, so the call raises AttributeError.
HasCleanupFiles == variant = "Amazon"

\* self._cleanup_files(attempt, success=True); return True
\* (os.remove of a file that exists either removes it or raises, which is
\* logged and swallowed: kept are the files that could not be removed)
CleanupFiles ==
    /\ pc = "cleanup"
    /\ IF HasCleanupFiles
       THEN /\ IF save_debug_output
               THEN \E kept \in SUBSET (files \cap files_to_clean(attempt)) :
                      /\ files' = (files \ files_to_clean(attempt)) \cup kept
                      /\ att' = [att EXCEPT !.cleanup =
                                    IF kept = {} THEN "ok" ELSE "failed"]
               ELSE /\ files' = files
                    /\ att' = [att EXCEPT !.cleanup = "ok"]
            /\ ret' = "True"
            /\ pc' = "returned"
       ELSE /\ pc' = "except"
            /\ att' = [att EXCEPT !.cleanup = "undefined"]
            /\ UNCHANGED <<files, ret>>
    /\ UNCHANGED <<config, fallback_state, attempt, image_path, captcha_text,
                   clock, calls, written>>

(***************************************************************************)
(* solve_captcha_with_fallback (AmazonCaptchaSolver only)                  *)
(***************************************************************************)
\* if self.solve_captcha(driver, max_attempts): return True
\* (the locals of solve_captcha are gone once it has returned, and the
\* fallback counts its own interactions; the attempt counter is kept for
\* the record)
FallbackAfterSolve ==
    /\ pc = "returned"
    /\ entry = "fallback"
    /\ IF ret = "True"
       THEN /\ fbret' = "True"
            /\ pc' = "done"
       ELSE /\ pc' = "fb_screenshot"
            /\ UNCHANGED fbret
    /\ image_path' = "None"
    /\ captcha_text' = << >>
    /\ att' = NoAttempt
    /\ calls' = NoCalls
    /\ UNCHANGED <<config, attempt, ret, disk, clock, start_time, oversleep>>

\* if self.save_debug_output: driver.save_screenshot(manual_screenshot_path)
\* max_wait = 120; start_time = time.time()
\* (time.time() counts from the epoch: its reading here is any time)
FallbackScreenshot ==
    /\ pc = "fb_screenshot"
    /\ \E r \in (IF save_debug_output THEN ScreenshotOutcomes ELSE {"skip"}) :
         /\ att' = [att EXCEPT !.shot = r]
         /\ calls' = IF r = "skip" THEN calls
                     ELSE [calls EXCEPT !.shot = @ + 1]
         /\ files' = IF r = "ok" THEN files \cup {manual_screenshot_path}
                     ELSE files
         /\ written' = IF r = "ok" THEN written \cup {manual_screenshot_path}
                       ELSE written
         /\ IF r # "skip" /\ ScreenshotRaises(r)
            THEN /\ fbret' = "False"
                 /\ pc' = "done"
                 /\ UNCHANGED <<start_time, clock, oversleep>>
            ELSE /\ clock' \in 0..MaxStartTime
                 /\ start_time' = clock'
                 /\ oversleep' \in 0..MaxOversleep
                 /\ pc' = "fb_loop"
                 /\ UNCHANGED fbret
    /\ UNCHANGED <<config, attempt, image_path, captcha_text, ret>>

\* one more poll at the ceiling
FallbackLoopCondition_Inclusive == clock - start_time <= max_wait

\* while time.time() - start_time < max_wait
FallbackLoopCondition == clock - start_time < max_wait

\* while time.time() - start_time < max_wait: ... ; return False
FallbackLoopTest ==
    /\ pc = "fb_loop"
    /\ IF FallbackLoopCondition
       THEN /\ pc' = "fb_poll"
            /\ UNCHANGED fbret
       ELSE /\ fbret' = "False"
            /\ pc' = "done"
    /\ UNCHANGED <<config, attempt, image_path, captcha_text, ret, disk,
                   clock, start_time, oversleep, calls, att>>

\* the fallback keeps waiting whatever the poll finds
StillChallenged_Always(seen) == TRUE

\* try: driver.find_element(...); time.sleep(2)  except: ... return True
StillChallenged(seen) == seen = "present"

\* driver.find_element(By.ID, "captchacharacters"): found, time.sleep(2);
\* not found, remove the manual-intervention screenshot and return True
FallbackPoll ==
    /\ pc = "fb_poll"
    /\ \E r \in {"present", "absent", "error"} :
         /\ att' = [att EXCEPT !.verify = r]
         /\ calls' = [calls EXCEPT !.poll = @ + 1]
         /\ IF StillChallenged(InputSeen(r))
            THEN /\ clock' = clock + PollSleep + oversleep
                 /\ pc' = "fb_loop"
                 /\ UNCHANGED <<fbret, files>>
            ELSE /\ \E removed \in BOOLEAN :
                      files' = IF save_debug_output /\ removed
                               THEN files \ {manual_screenshot_path}
                               ELSE files
                 /\ fbret' = "True"
                 /\ pc' = "done"
                 /\ UNCHANGED clock
    /\ UNCHANGED <<config, attempt, image_path, captcha_text, ret, start_time,
                   oversleep, written>>

Next ==
    \/ CheckReader
    \/ LoopTest
    \/ Detect
    \/ Download
    \/ Screenshot
    \/ Preprocess
    \/ Recognize
    \/ Validate
    \/ TryDifferentImage
    \/ Increment
    \/ OuterExcept
    \/ Submit
    \/ Verify
    \/ CleanupFiles
    \/ FallbackAfterSolve
    \/ FallbackScreenshot
    \/ FallbackLoopTest
    \/ FallbackPoll

Spec == Init /\ [][Next]_vars

(***************************************************************************)
(* _fix_common_errors called on its own: on any text over Chars of length  *)
(* at most MaxInputLen and on three longer texts, and then                 *)
(* once more on what it returned.                                          *)
(***************************************************************************)
\* "0851"
Example0851 == <<"0", "8", "5", "1">>
\* "A B-C1"
ExampleABC1Noisy == <<"A", " ", "B", "-", "C", "1">>
\* "ABC1"
ExampleABC1 == <<"A", "B", "C", "1">>

TextInputs ==
    UNION {TextsOfLen(Chars, n) : n \in 0..MaxInputLen}
        \cup {Example0851, ExampleABC1Noisy, ExampleABC1}

\* the state before a call of _fix_common_errors(text_in); no solver runs
InitText ==
    /\ variant = "Amazon"
    /\ reader = "ok"
    /\ save_debug_output = FALSE
    /\ max_attempts = 0
    /\ entry = "solve"
    /\ pc = "correct"
    /\ attempt = 0
    /\ image_path = "None"
    /\ captcha_text = << >>
    /\ ret = "none"
    /\ fbret = "none"
    /\ files = {}
    /\ clock = 0
    /\ start_time = 0
    /\ oversleep = 0
    /\ calls = NoCalls
    /\ att = NoAttempt
    /\ written = {}
    /\ text_in \in TextInputs
    /\ text_out = << >>
    /\ text_alt = NoReorder

\* text_out[1] = _fix_common_errors(text_in), then
\* text_out[2] = _fix_common_errors(text_out[1])
Correct ==
    /\ pc = "correct"
    /\ Len(text_out) < 2
    /\ text_out' = Append(text_out,
                          FixCommonErrors(IF text_out = << >> THEN text_in
                                          ELSE text_out[Len(text_out)]))
    /\ UNCHANGED <<variant, reader, save_debug_output, max_attempts, entry, pc,
                   attempt, image_path, captcha_text, ret, fbret, files, clock,
                   start_time, oversleep, calls, att, written, text_in,
                   text_alt>>

\* the items of the dict replacements in every order
RuleOrders ==
    {[i \in DOMAIN replacements |-> replacements[p[i]]] :
        p \in Permutations(DOMAIN replacements)}

\* _fix_common_errors with the loop over the rules in the given order
FixInOrder(text, rules) == ApplyReplacements(Upper(KeepAlnum(text)), rules)

\* _fix_common_errors(text_in) run once more with the rules in some order
Reorder ==
    /\ pc = "correct"
    /\ Len(text_out) = 1
    /\ text_alt = NoReorder
    /\ \E rules \in RuleOrders :
         text_alt' = [rules |-> rules, out |-> FixInOrder(text_in, rules)]
    /\ UNCHANGED <<variant, reader, save_debug_output, max_attempts, entry, pc,
                   attempt, image_path, captcha_text, ret, fbret, files, clock,
                   start_time, oversleep, calls, att, written, text_in,
                   text_out>>

NextText ==
    \/ Correct
    \/ Reorder

SpecText == InitText /\ [][NextText]_vars


(***************************************************************************)
(* Properties.                                                             *)
(***************************************************************************)
\* the positions inside solve_captcha_with_fallback, after solve_captcha
FallbackPcs == {"fb_screenshot", "fb_loop", "fb_poll", "done"}

\* C1: the attempt counter starts at 0 and never exceeds max_attempts, and
\* in one call of solve_captcha the recognizer is called at most max_attempts
\* times and the image is fetched at most max_attempts times.
C1_AttemptCounterBounded ==
    /\ attempt >= 0
    /\ (pc \in {"loop", "detect"} /\ calls.detect = 0) => attempt = 0
    /\ attempt <= max_attempts
    /\ calls.recog <= max_attempts
    /\ calls.fetch <= max_attempts
    /\ att.recogs <= 1
    /\ att.fetches <= 1

\* C1 happens: three attempts, each with a fetch and a recognition, then False
C1_Witness ==
    /\ pc = "returned"
    /\ ret = "False"
    /\ max_attempts >= 3
    /\ attempt = max_attempts
    /\ calls.recog = max_attempts
    /\ calls.fetch = max_attempts

\* C2 (as claimed): once the re-query after a submission has found the
\* challenge input absent, solve_captcha returns True in that attempt, in
\* every variant.
C2_SolvedWhenInputGone ==
    (pc \notin FallbackPcs /\ pc # "cleanup" /\ att.verify = "absent")
        => (pc = "returned" /\ ret = "True")

\* C3: with the engine available and max_attempts >= 1, a first detection
\* query that finds the challenge input absent makes solve_captcha return True
\* with the counter at 0 and no fetch, recognition, submission or fresh-image
\* request.
C3_AbsentAtDetectionSolvedAtOnce ==
    (reader = "ok" /\ max_attempts >= 1 /\ calls.detect = 1
        /\ att.detect = "absent")
        => /\ pc = "returned"
           /\ ret = "True"
           /\ attempt = 0
           /\ calls.fetch = 0
           /\ calls.recog = 0
           /\ calls.submit = 0
           /\ calls.fresh = 0
           /\ calls.shot = 0

\* C3 happens: True at the first detection
C3_Witness ==
    /\ ret = "True"
    /\ attempt = 0
    /\ calls.detect = 1
    /\ att.detect = "absent"
    /\ max_attempts >= 1

\* one step of an attempt whose corrected text was too short
C4_Step ==
    att.short =>
        /\ att.submits = 0
        /\ att'.submits = 0
        /\ calls'.submit = calls.submit \/ att' = NoAttempt
        /\ (attempt' # attempt \/ att' = NoAttempt) => att.fresh = 1

\* C4: in an attempt whose corrected text has fewer than 4 characters nothing
\* is submitted, and the fresh-image request is issued before the counter is
\* incremented and before the next attempt begins.
C4_TooShortNeverSubmitted == [][C4_Step]_vars

\* C4 happens: a too-short attempt is over, its fresh-image request made
C4_Witness ==
    /\ pc = "loop"
    /\ att.short
    /\ att.recog = "ok"
    /\ att.fresh = 1
    /\ attempt = 2

\* one step of an attempt whose submission left the challenge in place
C5_Step ==
    (pc \notin FallbackPcs /\ att.verify = "present") =>
        /\ ret' # "True"
        /\ att'.fresh <= 1
        /\ attempt' # attempt => (attempt' = attempt + 1 /\ att.fresh = 1)
        /\ att' = NoAttempt => att.fresh = 1
        /\ (pc = "loop" /\ pc' # pc) =>
              IF attempt < max_attempts
              THEN pc' = "detect" /\ ret' = "none"
              ELSE pc' = "returned" /\ ret' = "False"

\* C5: when the re-query after a submission finds the challenge input still
\* present, the solver makes exactly one fresh-image request, then increments
\* the counter by one, then starts the next attempt or, the counter having
\* reached max_attempts, returns False; it does not return True.
C5_StillChallengedRetries == [][C5_Step]_vars

\* C5 happens: a submission failed, the fresh image was requested, the counter
\* incremented
C5_Witness ==
    /\ pc = "loop"
    /\ att.verify = "present"
    /\ att.submits = 1
    /\ att.fresh = 1
    /\ attempt = 1

\* C6: with the engine unavailable solve_captcha returns False and, up to its
\* return, never queries, fetches, screenshots, recognizes, submits or asks
\* for a new image.  (The counters start anew when the fallback takes over:
\* what the fallback then does is the subject of C7.)
C6_EngineUnavailableShortCircuits ==
    reader = "None" =>
        /\ pc \notin FallbackPcs
              => /\ calls.detect = 0
                 /\ calls.fetch = 0
                 /\ calls.shot = 0
                 /\ calls.recog = 0
                 /\ calls.submit = 0
                 /\ calls.fresh = 0
        /\ ret # "True"
        /\ pc # "start" => ret = "False"
        /\ pc \in {"start", "returned"} \cup FallbackPcs

\* C6 happens: solve_captcha has returned False on an unavailable engine
C6_Witness ==
    /\ reader = "None"
    /\ pc = "returned"
    /\ ret = "False"
    /\ max_attempts >= 1

\* C7 (as claimed): the poll loop of the fallback is entered only after
\* solve_captcha has exhausted its attempts on an available engine; with the
\* engine unavailable, or after True, nothing is polled.
C7_FallbackOnlyAfterExhaustion ==
    (max_attempts >= 1 /\ (pc \in {"fb_loop", "fb_poll"} \/ calls.poll > 0))
        => (reader = "ok" /\ ret = "False" /\ attempt = max_attempts)

\* C8: a poll is issued only before the ceiling; a poll that finds the
\* challenge input absent ends the call with True; when the loop ends after
\* polls that all found it present, the ceiling is reached and the call
\* returns False.
C8_FallbackOutcome ==
    /\ pc = "fb_poll" => clock - start_time < max_wait
    /\ (pc \in FallbackPcs /\ att.verify = "absent")
          => (pc = "done" /\ fbret = "True")
    /\ (pc = "done" /\ att.verify = "present")
          => (fbret = "False" /\ clock - start_time >= max_wait)
    /\ (pc = "done" /\ fbret = "False" /\ calls.poll > 0)
          => att.verify = "present"
    /\ (pc \in {"fb_loop", "fb_poll"}) => fbret = "none"

\* C8 happens: the third poll finds the input gone and the call returns True
C8_Witness ==
    /\ pc = "done"
    /\ fbret = "True"
    /\ att.verify = "absent"
    /\ calls.poll = 3

\* the largest number of polls of one fallback
MaxPolls == max_wait \div PollSleep

\* C9: every poll that finds the input present is followed by a wait of at
\* least 2 time units, no poll begins once 120 time units have elapsed since
\* the fallback started, and at most 60 polls are issued.
C9_PollLoopBounded ==
    /\ calls.poll <= MaxPolls
    /\ pc = "fb_poll" => clock - start_time < max_wait
    /\ pc \in {"fb_loop", "fb_poll"}
          => clock - start_time >= PollSleep * calls.poll
    /\ (pc = "done" /\ att.verify = "present")
          => clock - start_time >= PollSleep * calls.poll

\* C9 happens: sixty polls, all finding the input, and the call returns False
C9_Witness ==
    /\ pc = "done"
    /\ fbret = "False"
    /\ calls.poll = MaxPolls

\* C10 (as claimed): a debug artifact that cannot be written does not end
\* the attempt, nor the fallback: the code goes on as if it had been written.
C10_DebugWriteFailureIgnored ==
    /\ ~(pc = "inc" /\ att.download = "write_error")
    /\ ~(pc = "inc" /\ att.pre = "write_raise")
    /\ ~(pc = "except" /\ att.shot = "write_fail" /\ att.pre = "none")
    /\ ~(pc = "done" /\ att.shot = "write_fail" /\ calls.poll = 0)

\* the positions inside the loop of solve_captcha
AttemptPcs ==
    {"detect", "download", "screenshot", "preprocess", "recognize", "validate",
     "try_image", "submit", "verify", "cleanup", "inc", "except"}

\* what the claims call a per-attempt error, as the current attempt saw it:
\* the download failed, the image did not decode, the text was too short,
\* the page still challenged, or the browser raised
AttemptFailed(a) ==
    \/ a.detect = "error"
    \/ a.download \in {"no_image", "download_error"}
    \/ a.shot = "error"
    \/ a.pre = "decode_error"
    \/ a.short
    \/ a.submit \in {"error_before", "error_after"}
    \/ a.verify \in {"present", "error"}

\* C11 (as claimed): the counter only ever grows by one, and then the loop
\* goes on; an attempt in which a per-attempt error occurred, an exception of
\* the browser included, is on its way to that increment and never returns
\* True; the only way out of solve_captcha is a returned value.
C11_Step ==
    /\ attempt' \in {attempt, attempt + 1}
    /\ attempt' = attempt + 1 => pc \in {"inc", "except"} /\ pc' = "loop"
    /\ pc \in {"inc", "except"} => attempt' = attempt + 1
    /\ (pc \in AttemptPcs /\ AttemptFailed(att'))
          => /\ pc' \in {"try_image", "inc", "except", "loop"}
             /\ ret' = "none"

C11_ErrorsCostOneAttempt == [][C11_Step]_vars

\* C12 (as claimed): when solve_captcha returns True after a submission in
\* attempt k with debugging enabled, the raw download, the preprocessed
\* bitmap and the screenshot of attempt k are gone, in every variant, unless
\* a deletion failed.
C12_SolvedAttemptArtifactsDeleted ==
    (/\ pc = "returned"
     /\ ret = "True"
     /\ att.submit = "ok"
     /\ att.submits = 1
     /\ save_debug_output
     /\ att.cleanup # "failed")
        => files \cap files_to_clean(attempt) = {}

\* C13 (as claimed): when solve_captcha returns True with debugging enabled,
\* nothing this invocation wrote is left on disk, the screenshots of earlier
\* attempts included.  (Stated where it is most favourable to the claim: the
\* attempt that returned has cleaned up and every deletion has succeeded.)
C13_NoArtifactLeftWhenSolved ==
    (/\ pc = "returned"
     /\ ret = "True"
     /\ save_debug_output
     /\ att.cleanup = "ok")
        => written \cap files = {}

\* C13 (amended): when solve_captcha returns True with debugging enabled,
\* the only artifacts that can be gone are those of the attempt that
\* returned (raw download, preprocessed bitmap, its own screenshot); the
\* screenshot of every earlier attempt of the invocation is still on disk.
C13_EarlierScreenshotsRemain ==
    (pc = "returned" /\ ret = "True" /\ save_debug_output)
        => /\ written \ files \subseteq files_to_clean(attempt)
           /\ \A j \in 0..(attempt - 1) :
                screenshot_path(j) \in written => screenshot_path(j) \in files

\* C13 happens: solved in the second attempt, whose screenshot is gone while
\* that of the first attempt is still there
C13_Witness ==
    /\ pc = "returned"
    /\ ret = "True"
    /\ save_debug_output
    /\ attempt = 1
    /\ att.cleanup = "ok"
    /\ screenshot_path(1) \in written \ files
    /\ screenshot_path(0) \in files

\* C14: while solve_captcha has not returned True, and so when it returns
\* False, with or without attempts left, nothing it wrote has been deleted:
\* every path written during the invocation exists.  (What else is in the
\* directory is a raw download that open created and f.write could not
\* fill.)
C14_FailedKeepsArtifacts ==
    (pc \in AttemptPcs \cup {"start", "loop", "returned"} /\ ret # "True")
        => /\ written \subseteq files
           /\ files \ written \subseteq {temp_img_path}

\* C14 happens: three attempts failed with debugging enabled, and the raw
\* download, the preprocessed bitmap and the three screenshots are on disk
C14_Witness ==
    /\ pc = "returned"
    /\ ret = "False"
    /\ save_debug_output
    /\ attempt = 3
    /\ files = {temp_img_path, preprocessed_path, screenshot_path(0),
                screenshot_path(1), screenshot_path(2)}

\* what the corrector makes of the recognizer outputs
CorrectedOutputs == {PostProcess(joined) : joined \in RecognizerOutputs}

\* the characters a submitted text may hold
SubmittableChars == (UpperLetters \cup Digits) \ {"0", "1", "5", "8"}

\* C15: the text about to be entered into the page (send_keys is called with
\* captcha_text at position "submit" and nowhere else) is what the corrector
\* made of a recognizer output of this attempt, has at least 4 characters,
\* all of them upper-case letters or digits, none of them 0, 1, 5 or 8.
C15_SubmittedTextIsCorrected ==
    pc = "submit"
        => /\ att.recog = "ok"
           /\ captcha_text \in CorrectedOutputs
           /\ Len(captcha_text) >= MinTextLen
           /\ \A i \in DOMAIN captcha_text : captcha_text[i] \in SubmittableChars

\* C15 happens: a text in which the corrector replaced a digit is about to
\* be submitted
C15_Witness ==
    /\ pc = "submit"
    /\ \E i \in DOMAIN captcha_text : captcha_text[i] = "O"
    /\ \E i \in DOMAIN captcha_text : captcha_text[i] = "A"

\* the observations the three variants are compared on: input present or
\* absent, fetch ok or failed, decode ok or failed, a recognized text (and so
\* a page whose button is there: a submission that went through clicked it)
ObservationsOnly(a) ==
    /\ a.detect \in {"none", "present", "absent"}
    /\ a.download \in {"none", "ok", "no_image", "download_error"}
    /\ a.shot \in {"none", "ok"}
    /\ a.pre \in {"none", "ok", "decode_error"}
    /\ a.recog \in {"none", "ok"}
    /\ a.submit \in {"none", "ok"}
    /\ a.submit = "ok" => a.submits = 1
    /\ a.verify \in {"none", "present", "absent"}

\* how an attempt with these observations ends in the state machine the
\* variants are said to share
ResultOfObservations(a) ==
    IF a.detect = "absent" \/ a.verify = "absent" THEN "solved"
    ELSE IF \/ a.download \in {"no_image", "download_error"}
            \/ a.pre = "decode_error"
            \/ a.short
            \/ a.verify = "present"
         THEN "retry"
         ELSE "running"

\* how the attempt has ended in the variant that runs
AttemptResult ==
    IF pc = "returned" /\ ret = "True" THEN "solved"
    ELSE IF pc \in {"inc", "except"} THEN "retry"
    ELSE "running"

\* C16 (as claimed): on the same observations every variant ends the attempt
\* in the same way, with the same submissions and fresh-image requests: the
\* result, the number of submissions and the number of fresh-image requests
\* of an attempt are functions of its observations, whatever the variant.
C16_VariantsAgree ==
    (/\ pc \in (AttemptPcs \ {"try_image", "cleanup"}) \cup {"returned"}
     /\ pc = "returned" => ret = "True"
     /\ ObservationsOnly(att))
        => /\ AttemptResult = ResultOfObservations(att)
           /\ att.submits = (IF att.submit = "ok" THEN 1 ELSE 0)
           /\ att.fresh = (IF AttemptResult = "retry"
                              /\ (att.short \/ att.verify = "present")
                           THEN 1 ELSE 0)

\* C17 (as claimed): correcting a corrected text changes nothing, for every
\* text.
C17_CorrectorIdempotent ==
    Len(text_out) = 2 => text_out[2] = text_out[1]

\* whether the upper-case form of every letter and digit of the text is
\* made of letters and digits, as it is for every ASCII text
UpperStaysAlnum(text) ==
    \A i \in DOMAIN text :
        IsAlnum(text[i])
            => \A j \in DOMAIN UpperChar(text[i]) : IsAlnum(UpperChar(text[i])[j])

\* C17 (amended): correcting a corrected text changes nothing, for every
\* text whose letters and digits upper-case to letters and digits.
C17_CorrectorIdempotentOnAlnumUpper ==
    (Len(text_out) = 2 /\ UpperStaysAlnum(text_in))
        => text_out[2] = text_out[1]

\* C17 happens: a text that the corrector changes has been corrected twice
C17_Witness ==
    /\ Len(text_out) = 2
    /\ UpperStaysAlnum(text_in)
    /\ text_in = <<"a", "0">>
    /\ text_out[1] = <<"A", "O">>

\* the table of the claim: 0, 1, 5, 8 replaced by O, I, S, B
Substituted(c) ==
    CASE c = "0" -> "O"
      [] c = "1" -> "I"
      [] c = "5" -> "S"
      [] c = "8" -> "B"
      [] OTHER -> c

\* what the claim says of one character: removed when it is no letter or
\* digit, else upper-cased and substituted
CorrectedChar(c) ==
    IF IsAlnum(c)
    THEN [j \in DOMAIN UpperChar(c) |-> Substituted(UpperChar(c)[j])]
    ELSE << >>

RECURSIVE CorrectedText(_)
CorrectedText(text) ==
    IF text = << >> THEN << >>
    ELSE CorrectedChar(Head(text)) \o CorrectedText(Tail(text))

\* the number of letters and digits of a text
RECURSIVE AlnumCount(_)
AlnumCount(text) ==
    IF text = << >> THEN 0
    ELSE (IF IsAlnum(Head(text)) THEN 1 ELSE 0) + AlnumCount(Tail(text))

\* whether every letter and digit of the text upper-cases to one character
UpperKeepsLength(text) ==
    \A i \in DOMAIN text : IsAlnum(text[i]) => Len(UpperChar(text[i])) = 1

\* what C18 says of the two examples
C18_Examples ==
    /\ text_in = Example0851 => text_out[1] = <<"O", "B", "S", "I">>
    /\ text_in = ExampleABC1Noisy => text_out[1] = <<"A", "B", "C", "I">>
    /\ text_in = ExampleABC1 => text_out[1] = <<"A", "B", "C", "I">>

\* C18 (as claimed): the corrector returns its input without the characters
\* that are no letters or digits, the rest upper-cased and 0, 1, 5, 8
\* replaced by O, I, S, B; the output is as long as the input has letters
\* and digits; "0851" gives "OBSI", "A B-C1" and "ABC1" give "ABCI".
C18_CorrectorFunction ==
    Len(text_out) >= 1
        => /\ text_out[1] = CorrectedText(text_in)
           /\ Len(text_out[1]) = AlnumCount(text_in)
           /\ C18_Examples

\* C18 (amended): as claimed, but the output is as long as the input has
\* letters and digits only when each of them upper-cases to one character.
C18_CorrectorFunctionLengthOnSimpleCase ==
    Len(text_out) >= 1
        => /\ text_out[1] = CorrectedText(text_in)
           /\ UpperKeepsLength(text_in)
                 => Len(text_out[1]) = AlnumCount(text_in)
           /\ C18_Examples

\* C18 happens: "A B-C1" has been corrected
C18_Witness ==
    /\ text_in = ExampleABC1Noisy
    /\ Len(text_out) >= 1
    /\ text_out[1] = <<"A", "B", "C", "I">>

\* the debug artifacts a step of an attempt writes, whether or not the file
\* existed before
StepWrites ==
    IF pc \in AttemptPcs /\ save_debug_output
    THEN (IF att.download = "none" /\ att'.download = "ok"
          THEN {temp_img_path} ELSE {})
         \cup (IF att.shot = "none" /\ att'.shot = "ok"
               THEN {screenshot_path(attempt)} ELSE {})
         \cup (IF att.pre = "none" /\ att'.pre = "ok"
               THEN {preprocessed_path} ELSE {})
    ELSE {}

\* C19 (as claimed): no attempt writes a debug artifact to a path that an
\* earlier attempt of the invocation has written (an attempt writes each of
\* its artifacts once, so a path written before is a path of an earlier
\* attempt).
C19_Step == StepWrites \cap written = {}

C19_NoSharedDebugPath == [][C19_Step]_vars

\* the attempt could not get the image
AcquisitionFailed(a) == a.download \in {"no_image", "download_error"}

\* C20: an attempt that could not get the image (no image element, or the
\* download failed) takes no screenshot, does not preprocess, does not call
\* the recognizer, submits nothing and asks for no other image; it goes to
\* the increment, which adds one to the counter, and the loop then either
\* starts the next attempt at detection or returns False.
C20_Step ==
    /\ (pc \in AttemptPcs \cup {"loop"} /\ AcquisitionFailed(att'))
          => /\ att'.shot = "none" /\ att'.pre = "none"
             /\ att'.recogs = 0 /\ att'.submits = 0 /\ att'.fresh = 0
             /\ pc' \in {"inc", "loop", "returned"}
             /\ pc' = "returned" => ret' = "False"
    /\ (pc = "inc" /\ AcquisitionFailed(att))
          => attempt' = attempt + 1 /\ pc' = "loop"
    /\ (pc = "loop" /\ AcquisitionFailed(att) /\ LoopCondition)
          => pc' = "detect" /\ att' = NoAttempt /\ attempt' = attempt

C20_AcquisitionFailureEndsAttempt == [][C20_Step]_vars

\* C20 happens: the first attempt found no image, the counter is 1 and the
\* loop is about to start the second attempt
C20_Witness ==
    /\ pc = "loop"
    /\ att.download = "no_image"
    /\ attempt = 1
    /\ max_attempts > 1
    /\ calls.recog = 0 /\ calls.submit = 0 /\ calls.fresh = 0

\* the positions of solve_captcha
SolvePcs == AttemptPcs \cup {"start", "loop", "returned"}

\* C21: in an attempt every step comes after the steps before it went well:
\* the fetch after the input was found, screenshot and preprocessing after
\* the fetch, recognition after preprocessing, the length check after
\* recognition, the submission after a text that passed it, the re-query
\* after the submission; an attempt fetches and submits at most once, and it
\* starts with nothing of the attempt before.
C21_StepsInOrder ==
    pc \in SolvePcs
        => /\ att.download # "none" => att.detect = "present"
           /\ att.shot # "none" => att.download = "ok"
           /\ att.pre # "none" => att.download = "ok"
           /\ att.recog # "none" => att.pre \in {"ok", "write_false"}
           /\ att.short => att.recog # "none"
           /\ (att.submit # "none" \/ pc = "submit")
                 => /\ att.detect = "present"
                    /\ att.download = "ok"
                    /\ att.pre \in {"ok", "write_false"}
                    /\ att.recog = "ok"
                    /\ ~att.short
           /\ pc = "submit" => Len(captcha_text) >= MinTextLen
           /\ att.verify # "none" => att.submit = "ok"
           /\ att.fetches <= 1
           /\ att.submits <= 1
           /\ pc = "detect" => att = NoAttempt

\* C21 happens: an attempt went through all its steps, screenshot included,
\* and the page still challenges
C21_Witness ==
    /\ pc = "try_image"
    /\ save_debug_output
    /\ att.shot = "ok"
    /\ att.fetches = 1
    /\ att.submits = 1
    /\ att.verify = "present"

\* C23: an attempt in which the recognizer raised goes on to the length
\* check with an empty text and ends as a too-short attempt: nothing is
\* submitted, one other image is asked for, the counter grows by one.  An
\* attempt whose image could not be decoded ends with the counter grown by
\* one and without a request for another image.
C23_Step ==
    /\ (pc \in AttemptPcs \cup {"loop"} /\ att'.recog = "error")
          => /\ att'.submit = "none" /\ att'.submits = 0
             /\ pc' \in {"validate", "try_image", "inc", "loop", "returned"}
             /\ pc' # "validate" => att'.short
             /\ pc' \in {"inc", "loop", "returned"} => att'.fresh = 1
             /\ pc' = "returned" => ret' = "False"
    /\ (pc \in AttemptPcs \cup {"loop"} /\ att'.pre = "decode_error")
          => /\ att'.recogs = 0 /\ att'.submits = 0 /\ att'.fresh = 0
             /\ pc' \in {"inc", "loop", "returned"}
             /\ pc' = "returned" => ret' = "False"
    /\ (pc = "inc" /\ (att.recog = "error" \/ att.pre = "decode_error"))
          => attempt' = attempt + 1 /\ pc' = "loop"

C23_RecognizerFailureIsEmptyText == [][C23_Step]_vars

\* C23 happens: the recognizer raised in the first attempt, which asked for
\* another image and was counted
C23_Witness ==
    /\ pc = "loop"
    /\ att.recog = "error"
    /\ att.short
    /\ att.fresh = 1
    /\ attempt = 1

\* what the most recent query for the challenge input gave
LastObservation ==
    IF att.verify # "none" THEN att.verify ELSE att.detect

\* C25: when solve_captcha has returned True, the most recent query for the
\* challenge input did not find it: it reported it absent or, in the
\* Selenium-based variants, raised.
C25_SolvedOnlyWhenInputNotSeen ==
    (pc = "returned" /\ ret = "True")
        => /\ LastObservation \notin {"present", "none"}
           /\ variant \in SeleniumBased => LastObservation \in {"absent", "error"}
           /\ variant \notin SeleniumBased => LastObservation = "absent"

\* C25 happens: True in the second attempt, the re-query after the
\* submission not finding the input
C25_Witness ==
    /\ pc = "returned"
    /\ ret = "True"
    /\ attempt = 1
    /\ att.verify = "absent"
    /\ variant = "Playwright"

\* C26: an attempt asks for another image at most once, and only when its
\* text was too short or the page still challenged after the submission;
\* never after a failed download, a failed preprocessing or an exception
\* that went to the outer handler; in one invocation there are at most
\* max_attempts such requests.
C26_FreshImageRequests ==
    pc \in SolvePcs
        => /\ att.fresh <= 1
           /\ att.fresh = 1
                 => /\ att.short \/ att.verify = "present"
                    /\ pc \in {"inc", "loop", "returned"}
           /\ (\/ att.download \in {"no_image", "download_error", "write_error"}
               \/ att.pre \in {"decode_error", "write_raise"}
               \/ pc = "except")
                 => att.fresh = 0
           /\ calls.fresh <= max_attempts

\* C26 happens: three attempts, each of which asked for another image
C26_Witness ==
    /\ pc = "returned"
    /\ ret = "False"
    /\ max_attempts = 3
    /\ calls.fresh = 3

\* C27: every attempt starts with the query for the input; when the query
\* does not find it, solve_captcha returns True at once: the counter is as
\* it was, the attempt has fetched, recognized and submitted nothing, and
\* nothing that the earlier attempts wrote is deleted.
C27_Step ==
    /\ pc' \in AttemptPcs \ {"detect"} => att'.detect # "none"
    /\ (pc = "detect" /\ att'.detect = "absent")
          => /\ pc' = "returned"
             /\ ret' = "True"
             /\ attempt' = attempt
             /\ att'.fetches = 0 /\ att'.recogs = 0 /\ att'.submits = 0
             /\ files' = files
             /\ written' \subseteq files'

C27_AbsentInLaterAttempt == [][C27_Step]_vars

\* C27 happens: the first attempt failed and left its screenshot, the second
\* finds no input and returns True
C27_Witness ==
    /\ pc = "returned"
    /\ ret = "True"
    /\ attempt = 1
    /\ max_attempts > 1
    /\ att.detect = "absent"
    /\ screenshot_path(0) \in files

\* the call has returned: solve_captcha, or the fallback when it was called
Returned ==
    \/ entry = "solve" /\ pc = "returned" /\ ret \in {"True", "False"}
    \/ entry = "fallback" /\ pc = "done" /\ fbret \in {"True", "False"}

\* the steps an attempt has left, by position
PcRank ==
    CASE pc = "loop" -> 12
      [] pc = "detect" -> 11
      [] pc = "download" -> 10
      [] pc = "screenshot" -> 9
      [] pc = "preprocess" -> 8
      [] pc = "recognize" -> 7
      [] pc = "validate" -> 6
      [] pc = "submit" -> 5
      [] pc = "verify" -> 4
      [] pc = "cleanup" -> 3
      [] pc = "try_image" -> 2
      [] pc \in {"inc", "except"} -> 1
      [] OTHER -> 0

\* the time the fallback has left to wait
WaitLeft ==
    IF clock - start_time < max_wait THEN max_wait - (clock - start_time) ELSE 0

\* the largest rank of a position of the fallback
FallbackTop == 3 * max_wait + 4

\* A bound on the number of steps the call has left: the attempts left and
\* the steps left in the current one, then the time left to wait.
Rank ==
    CASE pc = "start" -> FallbackTop + 13 * max_attempts + 13
      [] pc \in AttemptPcs \cup {"loop"} ->
           FallbackTop + 13 * (max_attempts - attempt) + PcRank
      [] pc = "returned" -> FallbackTop
      [] pc = "fb_screenshot" -> 3 * max_wait + 3
      [] pc = "fb_loop" -> 3 * WaitLeft + 2
      [] pc = "fb_poll" -> 3 * WaitLeft + 1
      [] OTHER -> 0

\* C22: every call returns.  Every step of solve_captcha and of the fallback
\* lowers a bound on the steps left, which is never negative: an attempt
\* that ends without a return adds to the counter, of which max_attempts
\* is the ceiling, and a wait of the fallback advances the clock towards
\* max_wait.  Until the call has returned with True or False there is a
\* next step to take.
C22_Terminates ==
    /\ [](Rank >= 0)
    /\ [](Returned \/ ENABLED Next)
    /\ [][Rank' < Rank]_vars

\* C22 happens: the fallback returned after all attempts of solve_captcha
\* failed and the polls found the input until the operator solved it
C22_Witness ==
    /\ Returned
    /\ entry = "fallback"
    /\ fbret = "True"
    /\ attempt = max_attempts
    /\ max_attempts = 2
    /\ calls.poll > 2

\* C24: whatever the order in which the four rules are applied, the result
\* is the one of the table order, for every input.
C24_RuleOrderIrrelevant ==
    text_alt # NoReorder => text_alt.out = text_out[1]

\* C24 happens: a text holding the four digits of the table has been
\* corrected with the rules in the reverse of the table order
C24_Witness ==
    /\ text_in = Example0851
    /\ text_alt # NoReorder
    /\ text_alt.rules = << <<"8", "B">>, <<"5", "S">>, <<"1", "I">>, <<"0", "O">> >>
    /\ text_alt.out = <<"O", "B", "S", "I">>

=============================================================================
